---- MODULE Spec2Model ----
(***************************************************************************)
(* Model of the two action plugins of ansible-recursive:                   *)
(*   plugins/action/r_copy.py             (the "copy" variant)             *)
(*   plugins/action/template_recursive.py (the "template" variant)         *)
(* A run of a plugin is a sequence of steps; every remote operation it     *)
(* issues is one step whose task output is chosen by the environment.      *)
(* Strings that the code inspects character by character (paths, modes)    *)
(* are sequences of one-character strings.                                 *)
(***************************************************************************)
EXTENDS Integers, Sequences, FiniteSets, TLC

\* ------------------------------------------------------------------ bounds
\* most files in the local source tree
MaxFiles == 2
\* most override values over the three override tables of one configuration
MaxOverrides == 2

\* ----------------------------------------------------------- string helpers
SLASH == "/"
NL == "\n"

Range(s) == {s[k] : k \in 1..Len(s)}

\* str.endswith(suffix)
EndsWith(text, suffix) ==
    /\ Len(suffix) <= Len(text)
    /\ SubSeq(text, Len(text) - Len(suffix) + 1, Len(text)) = suffix

\* str.rstrip("/")
RECURSIVE RStripSlash(_)
RStripSlash(s) ==
    IF s # <<>> /\ s[Len(s)] = SLASH
    THEN RStripSlash(SubSeq(s, 1, Len(s) - 1))
    ELSE s

\* str.rfind("/") + 1
RFindSlash(p) ==
    LET hits == {k \in 1..Len(p) : p[k] = SLASH}
    IN  IF hits = {} THEN 0 ELSE CHOOSE k \in hits : \A h \in hits : h <= k

\* posixpath.dirname
dirname(p) ==
    LET head == SubSeq(p, 1, RFindSlash(p))
    IN  IF head # <<>> /\ Range(head) # {SLASH} THEN RStripSlash(head) ELSE head

\* os.path.join(a, b) for a relative b
join(a, b) == IF a # <<>> /\ a[Len(a)] = SLASH THEN a \o b ELSE a \o <<SLASH>> \o b

\* os.path.relpath(path, start) for a path below start
relpath(path, start) == SubSeq(path, Len(RStripSlash(start)) + 2, Len(path))

\* x in list
InList(x, list) == \E k \in 1..Len(list) : list[k] = x

\* list.remove(x): the list without the first occurrence of x
ListRemove(list, x) ==
    LET k == CHOOSE j \in 1..Len(list) : list[j] = x /\ \A h \in 1..(j - 1) : list[h] # x
    IN  SubSeq(list, 1, k - 1) \o SubSeq(list, k + 1, Len(list))

\* sorted(list, key=len): a stable insertion sort on the length of the string
RECURSIVE InsertByLen(_, _)
InsertByLen(sortedList, x) ==
    IF sortedList = <<>> THEN <<x>>
    ELSE IF Len(sortedList[Len(sortedList)]) <= Len(x) THEN Append(sortedList, x)
    ELSE Append(InsertByLen(SubSeq(sortedList, 1, Len(sortedList) - 1), x),
                sortedList[Len(sortedList)])

RECURSIVE SortedByLen(_)
SortedByLen(list) ==
    IF list = <<>> THEN <<>>
    ELSE InsertByLen(SortedByLen(SubSeq(list, 1, Len(list) - 1)), list[Len(list)])

\* strip_end(text, suffix)
strip_end(text, suffix) ==
    IF Len(suffix) > 0 /\ EndsWith(text, suffix)
    THEN SubSeq(text, 1, Len(text) - Len(suffix))
    ELSE text

J2 == <<".", "j", "2">>

\* -------------------------------------------------- _get_all_parent_dirs
\* the loop of lines 43-45 with "if" for "while": the direct parent alone
WalkUpOnce(cursor, output) ==
    IF InList(dirname(cursor), output) THEN output ELSE Append(output, dirname(cursor))

\* the inner while loop: append dirname(cursor) until it is already in output
RECURSIVE WalkUp(_, _)
WalkUp(cursor, output) ==
    IF InList(dirname(cursor), output) THEN output
    ELSE WalkUp(dirname(cursor), Append(output, dirname(cursor)))

RECURSIVE ParentDirsLoop(_, _)
ParentDirsLoop(paths, output) ==
    IF paths = <<>> THEN output
    ELSE ParentDirsLoop(Tail(paths), WalkUp(Head(paths), output))

_get_all_parent_dirs(paths) == ParentDirsLoop(paths, <<>>)

\* ------------------------------------------------------------ task arguments
\* a mode value as the YAML loader hands it over: a str, or something else
Str(s) == [isstr |-> TRUE, s |-> s]
NonStr(s) == [isstr |-> FALSE, s |-> s]
NoMode == NonStr(<<>>)
NoArg == "<absent>"

M0644 == Str(<<"0", "6", "4", "4">>)
M0755 == Str(<<"0", "7", "5", "5">>)
M0600 == Str(<<"0", "6", "0", "0">>)
M0700 == Str(<<"0", "7", "0", "0">>)
\* mode values the syntax check must refuse
BadModes ==
    { Str(<<"7", "5", "5">>), Str(<<"0", "7", "5", "a">>),
      Str(<<"0", "7", "5", "5", "5">>), NonStr(<<"0", "6", "4", "4">>) }

OctalDigits == {"0", "1", "2", "3", "4", "5", "6", "7"}

\* the check of lines 175-179 with re.match for re.fullmatch: a mode that
\* starts with four digits in 0-7 passes
ModeSyntaxErrorPrefix(mode) ==
    IF ~mode.isstr THEN <<"mode is not a string">>
    ELSE IF ~(Len(mode.s) >= 4 /\ Range(SubSeq(mode.s, 1, 4)) \subseteq OctalDigits)
         THEN <<"mode does not match regex">>
         ELSE <<>>

\* isinstance(mode, str) and re.fullmatch(r"[0-7]{4}", mode)
ModeSyntaxError(mode) ==
    IF ~mode.isstr THEN <<"mode is not a string">>
    ELSE IF ~(Len(mode.s) = 4 /\ Range(mode.s) \subseteq OctalDigits)
         THEN <<"mode does not match regex">>
         ELSE <<>>

\* SUPPORTED_OS
SUPPORTED_OS == {"linux", "darwin"}
OSChoices == {"linux", "darwin", "windows"}

supported_args ==
    { "owner", "group", "mode", "parent_dirs_mode", "src_root",
      "mode_overrides", "owner_overrides", "group_overrides" }
\* required_args, in the order the code checks them
required_args == <<"owner", "group", "mode", "parent_dirs_mode", "src_root">>
override_args == <<"mode_overrides", "owner_overrides", "group_overrides">>

\* the local trees: files by their path relative to the root that is walked
F_f == <<"f">>
F_fj2 == <<"f", ".", "j", "2">>
F_af == <<"a", "/", "f">>
F_abf == <<"a", "/", "b", "/", "f">>
FileUniverse == {F_f, F_fj2, F_af, F_abf}
SourceTrees == {t \in SUBSET FileUniverse : Cardinality(t) <= MaxFiles}
\* a template whose whole name is the suffix
F_j2 == <<".", "j", "2">>
TemplateTrees == {t \in SUBSET (FileUniverse \cup {F_j2}) : Cardinality(t) <= MaxFiles}

ROOT == <<"/">>
LocalRoot == <<"/", "s">>
P_a == <<"/", "a">>
P_aSlash == <<"/", "a", "/">>
P_af == <<"/", "a", "/", "f">>
P_nope == <<"/", "n", "o">>
\* the path lists an override value may carry
OverridePathLists == {<<P_aSlash>>, <<P_af>>, <<P_nope>>}

\* an override table is a dict in insertion order: a sequence of (key, paths)
Entry(k, paths) == [key |-> k, paths |-> paths]
TablesOf(keys, n) ==
    UNION { { t \in [1..m -> {Entry(k, pl) : k \in keys, pl \in OverridePathLists}] :
                \A x, y \in 1..m : x # y => t[x].key # t[y].key } : m \in 0..n }

\* a configuration with every required argument of both variants and no override
Baseline ==
    [ present |-> {"owner", "group", "mode", "parent_dirs_mode", "src_root"},
      owner |-> "root", group |-> "root", mode |-> M0644, parent_dirs_mode |-> M0755,
      src_root |-> LocalRoot, templates_root |-> LocalRoot, new_dir_mode |-> NoMode,
      mode_overrides |-> <<>>, owner_overrides |-> <<>>, group_overrides |-> <<>> ]

WithOverrides(mo, oo, go) ==
    [ Baseline EXCEPT
        !.present = @ \cup (IF mo # <<>> THEN {"mode_overrides"} ELSE {})
                      \cup (IF oo # <<>> THEN {"owner_overrides"} ELSE {})
                      \cup (IF go # <<>> THEN {"group_overrides"} ELSE {}),
        !.mode_overrides = mo, !.owner_overrides = oo, !.group_overrides = go ]

\* copy variant: configurations with overrides, MaxOverrides override values in all
CopyOverrideConfigs ==
    { WithOverrides(mo, oo, go) :
        mo \in TablesOf({M0600, M0700}, MaxOverrides),
        oo \in TablesOf({"bob"}, 1),
        go \in TablesOf({"wheel"}, 1) }

CopyConfigs ==
    {c \in CopyOverrideConfigs :
        Len(c.mode_overrides) + Len(c.owner_overrides) + Len(c.group_overrides)
            <= MaxOverrides}

\* copy variant: the baseline with one thing wrong
CopyFaultyConfigs ==
    { [Baseline EXCEPT !.present = @ \ {k}] : k \in Range(required_args) }
    \cup { [Baseline EXCEPT !.present = @ \cup {"bogus"}] }
    \cup { [Baseline EXCEPT !.mode = m] : m \in BadModes }
    \cup { [Baseline EXCEPT !.parent_dirs_mode = m] : m \in BadModes }
    \cup { [Baseline EXCEPT !.present = @ \cup {"mode_overrides"},
                            !.mode_overrides = <<Entry(m, <<P_af>>)>>] : m \in BadModes }
    \cup { [Baseline EXCEPT !.present = @ \cup {"mode_overrides"},
                            !.mode_overrides = <<Entry(M0600, <<P_af>>), Entry(m, <<P_af>>)>>] :
             m \in BadModes }

\* template variant: the arguments the plugin reads, each present or not
TemplateBaseline ==
    [ Baseline EXCEPT !.present = {"templates_root", "owner", "group", "mode"} ]
TemplateConfigs ==
    { TemplateBaseline }
    \cup { [TemplateBaseline EXCEPT !.present = @ \ {k}] :
             k \in {"templates_root", "owner", "group", "mode"} }
    \cup { [TemplateBaseline EXCEPT !.present = @ \cup {"bogus"}] }
    \cup { [TemplateBaseline EXCEPT !.present = @ \cup {"new_dir_mode"}, !.new_dir_mode = m] :
             m \in {M0700, Str(<<"7", "5", "5">>)} }

\* --------------------------------------------------------------- task outputs
\* the dict a remote operation returns: the keys it has and their values
NoDiff == [islist |-> FALSE, recs |-> <<>>]
DiffRec(b, a) == [keys |-> {"before", "after"}, before |-> b, after |-> a]
DictDiff(rec) == [islist |-> FALSE, recs |-> <<rec>>]
ListDiff(recs) == [islist |-> TRUE, recs |-> recs]
Output(keys, changed, failed, msg, diff) ==
    [keys |-> keys, changed |-> changed, failed |-> failed, msg |-> msg, diff |-> diff]

\* outputs without a diff
PlainOutputs ==
    { Output({"changed"}, FALSE, FALSE, <<>>, NoDiff),
      Output({"changed", "msg"}, TRUE, FALSE, <<"m">>, NoDiff),
      Output({"failed", "msg"}, FALSE, TRUE, <<"e">>, NoDiff) }

\* outputs with the diffs the multi_diff modules report
RichOutputs ==
    { Output({}, FALSE, FALSE, <<>>, NoDiff),
      Output({"changed", "msg", "diff"}, TRUE, FALSE, <<"m">>, DictDiff(DiffRec("x", "y"))),
      Output({"changed", "diff"}, FALSE, FALSE, <<>>, DictDiff(DiffRec("x", "x"))),
      Output({"changed", "diff"}, FALSE, FALSE, <<>>, DictDiff(DiffRec("x", "y"))),
      Output({"changed", "msg", "diff"}, FALSE, FALSE, <<"n">>, ListDiff(<<DiffRec("x", "x")>>)),
      Output({"changed", "failed", "msg", "diff"}, TRUE, TRUE, <<"e">>,
             DictDiff(DiffRec("x", "y"))),
      Output({"failed"}, FALSE, TRUE, <<>>, NoDiff) }

\* task_output.get(key, False) is True
GetTrue(out, key) == key \in out.keys /\ (IF key = "changed" THEN out.changed ELSE out.failed)

\* ---------------------------------------------------------------- r_copy.py
\* _do_save_diff
_do_save_diff(out) ==
    IF "diff" \notin out.keys THEN FALSE
    ELSE IF GetTrue(out, "changed") THEN TRUE
    ELSE IF /\ ~out.diff.islist
            /\ {"before", "after"} \subseteq out.diff.recs[1].keys
            /\ out.diff.recs[1].before = out.diff.recs[1].after
         THEN FALSE
         ELSE TRUE

\* the diff list after a task's diff is saved: += for a list, append for a dict
SavedDiff(diff, out) ==
    IF out.diff.islist THEN diff \o out.diff.recs ELSE Append(diff, out.diff.recs[1])

\* _update_result_from_task without lines 108-109
UpdateResultForgetsFailed(res, out) ==
    [ changed |-> res.changed \/ GetTrue(out, "changed"),
      failed |-> res.failed,
      msg |-> IF "msg" \in out.keys THEN res.msg \o <<NL>> \o out.msg ELSE res.msg,
      diff |-> IF _do_save_diff(out) THEN SavedDiff(res.diff, out) ELSE res.diff ]

\* ActionModule._update_result_from_task
_update_result_from_task(res, out) ==
    [ changed |-> res.changed \/ GetTrue(out, "changed"),
      failed |-> res.failed \/ GetTrue(out, "failed"),
      msg |-> IF "msg" \in out.keys THEN res.msg \o <<NL>> \o out.msg ELSE res.msg,
      diff |-> IF _do_save_diff(out) THEN SavedDiff(res.diff, out) ELSE res.diff ]

\* _result_failed
_result_failed(res, msg) == [res EXCEPT !.failed = TRUE, !.msg = msg]

\* the first override key whose path list holds the path, else the default
RECURSIVE FirstOverride(_, _, _)
FirstOverride(table, path, default) ==
    IF table = <<>> THEN default
    ELSE IF InList(path, Head(table).paths) THEN Head(table).key
    ELSE FirstOverride(Tail(table), path, default)

_get_mode(a, path, file_or_dir) ==
    FirstOverride(a.mode_overrides, path,
                  IF file_or_dir = "file" THEN a.mode ELSE a.parent_dirs_mode)
_get_owner(a, path) == FirstOverride(a.owner_overrides, path, a.owner)
_get_group(a, path) == FirstOverride(a.group_overrides, path, a.group)

\* [x.rstrip("/") for x in paths]
RStripAll(paths) == [k \in 1..Len(paths) |-> RStripSlash(paths[k])]

\* lines 184-186: every iteration over the table's items rebinds args[arg_name]
\* to a dict that holds the current item alone
RECURSIVE NormalizeLoop(_, _)
NormalizeLoop(items, table) ==
    IF items = <<>> THEN table
    ELSE NormalizeLoop(Tail(items), <<Entry(Head(items).key, RStripAll(Head(items).paths))>>)

NormalizeOverrides(table) == NormalizeLoop(table, table)

\* lines 181-186
NormalizedArgs(a) ==
    [ a EXCEPT !.present = @ \cup Range(override_args),
               !.mode_overrides = NormalizeOverrides(@),
               !.owner_overrides = NormalizeOverrides(@),
               !.group_overrides = NormalizeOverrides(@) ]

\* lines 161-166
RECURSIVE FirstMissing(_, _)
FirstMissing(names, a) ==
    IF names = <<>> THEN <<>>
    ELSE IF Head(names) \notin a.present THEN <<"argument required", Head(names)>>
    ELSE FirstMissing(Tail(names), a)

\* lines 170-179 without the keys of mode_overrides
FirstBadDefaultMode(modes) ==
    IF ModeSyntaxError(modes[1]) # <<>> THEN ModeSyntaxError(modes[1])
    ELSE ModeSyntaxError(modes[2])

\* lines 170-179
RECURSIVE FirstBadMode(_)
FirstBadMode(modes) ==
    IF modes = <<>> THEN <<>>
    ELSE IF ModeSyntaxError(Head(modes)) # <<>> THEN ModeSyntaxError(Head(modes))
    ELSE FirstBadMode(Tail(modes))

ModeKeys(table) == [k \in 1..Len(table) |-> table[k].key]

\* lines 145-179: the message of the first check that fails, <<>> when none does
CopyArgError(os, a, isdir) ==
    IF os \notin SUPPORTED_OS THEN <<"unsupported OS", os>>
    ELSE IF FirstMissing(required_args, a) # <<>> THEN FirstMissing(required_args, a)
    ELSE IF a.present \ supported_args # {} THEN <<"unsupported argument">>
    ELSE IF ~isdir THEN <<"is not a directory!">>
    ELSE FirstBadMode(<<a.mode, a.parent_dirs_mode>> \o ModeKeys(a.mode_overrides))

\* lines 201-206
OverridePaths(a) ==
    UNION { UNION { Range(a[name][k].paths) : k \in 1..Len(a[name]) } :
              name \in Range(override_args) }

\* os.walk: a directory's own files come before the files below its
\* subdirectories, and the files below one directory come together
RelDir(rel) == IF RFindSlash(rel) = 0 THEN <<>> ELSE SubSeq(rel, 1, RFindSlash(rel))
Below(rel, d) == Len(d) <= Len(rel) /\ SubSeq(rel, 1, Len(d)) = d
IsWalkOrder(order, tree) ==
    /\ Range(order) = tree
    /\ Len(order) = Cardinality(tree)
    /\ \A i, j \in 1..Len(order) :
         i < j =>
           /\ ~(RelDir(order[j]) # RelDir(order[i]) /\ Below(order[i], RelDir(order[j])))
           /\ \A h \in (i + 1)..(j - 1) :
                \A k \in {x \in 1..Len(order[i]) : order[i][x] = SLASH} :
                    Below(order[j], SubSeq(order[i], 1, k))
                        => Below(order[h], SubSeq(order[i], 1, k))
WalkOrders(tree) ==
    {order \in [1..Cardinality(tree) -> tree] : IsWalkOrder(order, tree)}

\* lines 188-194
SrcDestTuples(root, order) ==
    [ k \in 1..Len(order) |->
        <<join(root, order[k]), join(ROOT, relpath(join(root, order[k]), root))>> ]

Dests(tuples) == [k \in 1..Len(tuples) |-> tuples[k][2]]

\* -------------------------------------------------------------------- state
VARIABLES
    variant,            \* "copy" (r_copy) or "template" (template_recursive)
    this_os,            \* platform.system().lower()
    task_args,          \* self._task.args as the caller supplied them
    tree,               \* the files below src_root / templates_root
    root_isdir,         \* os.path.isdir of the root
    remote_kind,        \* what the remote modules may answer in this run
    args,               \* self._task.args, which run rewrites in place
    pc,                 \* the position of run
    src_dest_tuples,    \* r_copy: (source, destination) in walk order
    destination_dirs,   \* r_copy: the parent directories, in application order
    template_files,     \* template_recursive: (source, destination) in walk order
    dest_dirs,          \* template_recursive: list(set(dest_dirs))
    idx,                \* the index of the running for loop
    stats,              \* template_recursive: the answer of the last remote stat
    result,             \* self.result / result
    ops,                \* the remote operations this run issued, with their outputs
    remote,             \* the remote filesystem, when remote_kind = "fs"
    run_no,             \* 1 for the first run, 2 for the run that repeats it
    first_result        \* the result the first run returned

vars ==
    << variant, this_os, task_args, tree, root_isdir, remote_kind, args, pc,
       src_dest_tuples, destination_dirs, template_files, dest_dirs, idx, stats, result,
       ops, remote, run_no, first_result >>

inputs == <<variant, this_os, task_args, tree, root_isdir, remote_kind>>

\* lines 134-138 of r_copy.py, lines 58-62 of template_recursive.py
EmptyResult == [changed |-> FALSE, failed |-> FALSE, msg |-> <<>>, diff |-> <<>>]

\* a call of a remote module, and the call with its output
Request(name, path, src, owner, group, mode, keys) ==
    [ op |-> name, path |-> path, src |-> src, owner |-> owner, group |-> group,
      mode |-> mode, keys |-> keys ]
Op(req, out) ==
    [ op |-> req.op, path |-> req.path, src |-> req.src, owner |-> req.owner,
      group |-> req.group, mode |-> req.mode, keys |-> req.keys, out |-> out ]

\* ------------------------------------------------- the remote modules
\* The file, copy and template modules are not part of the plugins. With
\* remote_kind "plain" or "rich" they may answer anything in a fixed set; with
\* "fs" they are idempotent operations on a remote filesystem.
RemotePaths ==
    { ROOT, P_a, <<"/", "a", "/", "b">>, <<"/", "f">>, <<"/", "f", ".", "j", "2">>,
      P_af, <<"/", "a", "/", "b", "/", "f">> }
Absent == [kind |-> "absent", owner |-> NoArg, group |-> NoArg, mode |-> NoMode, content |-> <<>>]
Node(kind, owner, group, mode, content) ==
    [kind |-> kind, owner |-> owner, group |-> group, mode |-> mode, content |-> content]
StaleDir == Node("dir", "nobody", "nobody", M0700, <<>>)
StaleFile == Node("file", "nobody", "nobody", M0600, <<"old">>)
NoRemote == [p \in RemotePaths |-> IF p = ROOT THEN StaleDir ELSE Absent]

\* a path exists only below a directory
ConsistentRemote(fs) ==
    \A p \in RemotePaths : p # ROOT /\ fs[p].kind # "absent" => fs[dirname(p)].kind = "dir"
InitialRemotes ==
    { fs \in [RemotePaths -> {Absent, StaleDir, StaleFile}] :
        /\ fs[ROOT] = StaleDir
        /\ ConsistentRemote(fs) }

RECURSIVE StrictAncestors(_)
StrictAncestors(p) ==
    IF dirname(p) = p THEN {} ELSE {dirname(p)} \cup StrictAncestors(dirname(p))

\* an attribute the call names replaces the node's, one it does not name stays
Attr(given, old, absent) == IF given = absent THEN old ELSE given
NodeWanted(fs, req, kind) ==
    Node(kind, Attr(req.owner, fs[req.path].owner, NoArg),
         Attr(req.group, fs[req.path].group, NoArg),
         Attr(req.mode, fs[req.path].mode, NoMode),
         IF kind = "file" THEN req.src ELSE <<>>)
WantedKind(req) == IF req.op \in {"mkdir", "create"} THEN "dir" ELSE "file"

\* the operation cannot be done: the path is of the other kind, or an ancestor
\* is a file, or a file's parent directory is missing
FsRefuses(fs, req) ==
    \/ fs[req.path].kind \notin {"absent", WantedKind(req)}
    \/ \E d \in StrictAncestors(req.path) : fs[d].kind = "file"
    \/ WantedKind(req) = "file" /\ fs[dirname(req.path)].kind # "dir"

FsOutput(fs, req) ==
    IF req.op = "stat"
    THEN Output( (IF fs[req.path].kind # "absent" THEN {"exists"} ELSE {})
                 \cup (IF fs[req.path].kind = "dir" THEN {"isdir"} ELSE {}),
                 FALSE, FALSE, <<>>, NoDiff )
    ELSE IF FsRefuses(fs, req) THEN Output({"failed", "msg"}, FALSE, TRUE, <<"e">>, NoDiff)
    ELSE Output({"changed"}, fs[req.path] # NodeWanted(fs, req, WantedKind(req)),
                FALSE, <<>>, NoDiff)

FsAfter(fs, req) ==
    IF req.op = "stat" \/ FsRefuses(fs, req) THEN fs
    ELSE [ p \in RemotePaths |->
             IF p = req.path THEN NodeWanted(fs, req, WantedKind(req))
             ELSE IF p \in StrictAncestors(req.path) /\ fs[p].kind = "absent"
                  THEN Node("dir", "root", "root", M0755, <<>>)
                  ELSE fs[p] ]

\* what remote stat may answer: absent, a directory, something else; the
\* root of the remote filesystem is a directory on every host
StatOutputs(kind, path) ==
    { Output(k, FALSE, FALSE, <<>>, NoDiff) :
        k \in IF path = ROOT THEN {{"exists", "isdir"}}
              ELSE {{}, {"exists", "isdir"}}
                   \cup (IF kind = "plain" THEN {{"exists"}} ELSE {}) }

\* the outputs a remote module may give to a call
TaskOutputs(kind, fs, req) ==
    IF kind = "fs" THEN {FsOutput(fs, req)}
    ELSE IF req.op = "stat" THEN StatOutputs(kind, req.path)
    ELSE IF kind = "rich" THEN RichOutputs ELSE PlainOutputs
RemoteAfter(kind, fs, req) == IF kind = "fs" THEN FsAfter(fs, req) ELSE fs

InitInputs ==
    \/ /\ variant = "copy"
       /\ remote_kind = "plain"
       /\ this_os \in OSChoices
       /\ task_args \in {Baseline} \cup CopyFaultyConfigs
       /\ root_isdir \in BOOLEAN
       /\ tree \in IF root_isdir THEN SourceTrees ELSE {{}}
    \/ /\ variant = "copy"
       /\ remote_kind = "plain"
       /\ this_os = "linux"
       /\ task_args \in CopyConfigs
       /\ root_isdir = TRUE
       /\ tree \in SourceTrees
    \/ /\ variant = "copy"
       /\ remote_kind \in {"rich", "fs"}
       /\ this_os = "linux"
       /\ task_args = Baseline
       /\ root_isdir = TRUE
       /\ tree \in SourceTrees
    \/ /\ variant = "template"
       /\ remote_kind = "plain"
       /\ this_os \in {"linux", "windows"}
       /\ task_args \in TemplateConfigs
       /\ root_isdir \in BOOLEAN
       /\ tree \in IF root_isdir THEN TemplateTrees ELSE {{}}
    \/ /\ variant = "template"
       /\ remote_kind \in {"rich", "fs"}
       /\ this_os = "linux"
       /\ task_args = TemplateBaseline
       /\ root_isdir = TRUE
       /\ tree \in SourceTrees

Init ==
    /\ InitInputs
    /\ remote \in IF remote_kind = "fs" THEN InitialRemotes ELSE {NoRemote}
    /\ run_no = 1
    /\ first_result = EmptyResult
    /\ stats = Output({}, FALSE, FALSE, <<>>, NoDiff)
    /\ args = task_args
    /\ pc = "start"
    /\ src_dest_tuples = <<>>
    /\ destination_dirs = <<>>
    /\ template_files = <<>>
    /\ dest_dirs = <<>>
    /\ idx = 1
    /\ result = EmptyResult
    /\ ops = <<>>

\* ------------------------------------------------------------ r_copy: run
\* lines 145-186: the checks on the platform and the arguments, then the
\* defaults and the normalization of the override tables
CopyValidate ==
    /\ variant = "copy"
    /\ pc = "start"
    /\ IF CopyArgError(this_os, args, root_isdir) # <<>>
       THEN /\ result' = _result_failed(result, CopyArgError(this_os, args, root_isdir))
            /\ pc' = "done"
            /\ UNCHANGED args
       ELSE /\ args' = NormalizedArgs(args)
            /\ pc' = "plan"
            /\ UNCHANGED result
    /\ UNCHANGED <<inputs, src_dest_tuples, destination_dirs, template_files, dest_dirs,
                   idx, stats, ops, remote, run_no, first_result>>

\* the directory list without the sort of line 198
UnsortedParentDirs(files) == _get_all_parent_dirs(files)

\* line 198
SortedParentDirs(files) == SortedByLen(_get_all_parent_dirs(files))

\* lines 206-207
overrides_not_found(a, files, dirs) == OverridePaths(a) \ (Range(files) \cup Range(dirs))

\* lines 188-211: the walk, the directory list and the check of the override
\* paths. list.remove raises ValueError when "/" is not in the list.
CopyPlan ==
    /\ variant = "copy"
    /\ pc = "plan"
    /\ \E order \in WalkOrders(tree) :
         LET tuples == SrcDestTuples(args.src_root, order)
             files == Dests(tuples)
             sortedDirs == SortedParentDirs(files)
         IN  /\ src_dest_tuples' = tuples
             /\ IF ~InList(ROOT, sortedDirs)
                THEN /\ pc' = "raised"
                     /\ destination_dirs' = sortedDirs
                     /\ UNCHANGED result
                ELSE LET dirs == ListRemove(sortedDirs, ROOT)
                     IN  /\ destination_dirs' = dirs
                         /\ IF overrides_not_found(args, files, dirs) # {}
                            THEN /\ result' = _result_failed(result,
                                                <<"overrides specified for invalid paths">>)
                                 /\ pc' = "done"
                            ELSE /\ UNCHANGED result
                                 /\ pc' = IF dirs # <<>> THEN "mkdir"
                                          ELSE IF tuples # <<>> THEN "copy" ELSE "done"
    /\ idx' = 1
    /\ UNCHANGED <<inputs, args, template_files, dest_dirs, stats, ops, remote, run_no,
                   first_result>>

\* lines 92-103: the module arguments of _mkdir_chmod_chown
_mkdir_chmod_chown(a, path) ==
    Request("mkdir", path, <<>>, _get_owner(a, path), _get_group(a, path),
            _get_mode(a, path, "dir"), {"path", "state", "owner", "group", "mode"})

\* lines 72-90 with the mode of a directory for the mode of a file
CopyWithDirMode(a, src, dest) ==
    Request("copy", dest, src, _get_owner(a, dest), _get_group(a, dest),
            _get_mode(a, dest, "dir"), {"src", "dest", "owner", "group", "mode"})

\* lines 72-90: the task arguments of _copy_chmod_chown
_copy_chmod_chown(a, src, dest) ==
    Request("copy", dest, src, _get_owner(a, dest), _get_group(a, dest),
            _get_mode(a, dest, "file"), {"src", "dest", "owner", "group", "mode"})

\* lines 213-216: one iteration of the loop over destination_dirs
CopyMkdir ==
    /\ variant = "copy"
    /\ pc = "mkdir"
    /\ LET req == _mkdir_chmod_chown(args, destination_dirs[idx])
       IN  \E out \in TaskOutputs(remote_kind, remote, req) :
         LET res == _update_result_from_task(result, out)
         IN  /\ ops' = Append(ops, Op(req, out))
             /\ remote' = RemoteAfter(remote_kind, remote, req)
             /\ result' = res
             /\ IF res.failed THEN pc' = "done" /\ UNCHANGED idx
                ELSE IF idx < Len(destination_dirs) THEN pc' = "mkdir" /\ idx' = idx + 1
                ELSE /\ pc' = IF src_dest_tuples # <<>> THEN "copy" ELSE "done"
                     /\ idx' = 1
    /\ UNCHANGED <<inputs, args, src_dest_tuples, destination_dirs, template_files, dest_dirs,
                   stats, run_no, first_result>>

\* lines 218-222: one iteration of the loop over src_dest_tuples
CopyFile ==
    /\ variant = "copy"
    /\ pc = "copy"
    /\ LET req == _copy_chmod_chown(args, src_dest_tuples[idx][1], src_dest_tuples[idx][2])
       IN  \E out \in TaskOutputs(remote_kind, remote, req) :
         LET res == _update_result_from_task(result, out)
         IN  /\ ops' = Append(ops, Op(req, out))
             /\ remote' = RemoteAfter(remote_kind, remote, req)
             /\ result' = res
             /\ IF res.failed \/ idx = Len(src_dest_tuples)
                THEN pc' = "done" /\ UNCHANGED idx
                ELSE pc' = "copy" /\ idx' = idx + 1
    /\ UNCHANGED <<inputs, args, src_dest_tuples, destination_dirs, template_files, dest_dirs,
                   stats, run_no, first_result>>

\* ------------------------------------------------ template_recursive.py
\* update_result_from_task with "=" for the "+=" of lines 70-71
UpdateResultOverwritesMsg(res, out) ==
    [ changed |-> res.changed \/ GetTrue(out, "changed"),
      failed |-> res.failed \/ GetTrue(out, "failed"),
      msg |-> IF "msg" \in out.keys THEN <<NL>> \o out.msg ELSE res.msg,
      diff |-> IF "diff" \in out.keys THEN SavedDiff(res.diff, out) ELSE res.diff ]

\* update_result_from_task
update_result_from_task(res, out) ==
    [ changed |-> res.changed \/ GetTrue(out, "changed"),
      failed |-> res.failed \/ GetTrue(out, "failed"),
      msg |-> IF "msg" \in out.keys THEN res.msg \o <<NL>> \o out.msg ELSE res.msg,
      diff |-> IF "diff" \in out.keys THEN SavedDiff(res.diff, out) ELSE res.diff ]

\* lines 83-88 without the check that templates_root is given
TemplateArgErrorRootOptional(a, isdir) ==
    IF ~isdir THEN <<"is not a directory!">> ELSE <<>>

\* lines 83-88: the message of the first check that fails, <<>> when none does
TemplateArgError(a, isdir) ==
    IF "templates_root" \notin a.present THEN <<"templates_root argument is required!">>
    ELSE IF ~isdir THEN <<"is not a directory!">>
    ELSE <<>>

\* lines 83-90
TemplateValidate ==
    /\ variant = "template"
    /\ pc = "start"
    /\ IF TemplateArgError(args, root_isdir) # <<>>
       THEN /\ result' = _result_failed(result, TemplateArgError(args, root_isdir))
            /\ pc' = "done"
            /\ UNCHANGED args
       ELSE /\ args' = IF "mode" \in args.present THEN args
                       ELSE [args EXCEPT !.present = @ \cup {"mode"}, !.mode = M0644]
            /\ pc' = "plan"
            /\ UNCHANGED result
    /\ UNCHANGED <<inputs, src_dest_tuples, destination_dirs, template_files, dest_dirs,
                   idx, stats, ops, remote, run_no, first_result>>

\* lines 92-99
TemplateFiles(root, order) ==
    [ k \in 1..Len(order) |->
        << join(root, order[k]),
           strip_end(join(ROOT, relpath(join(root, order[k]), root)), J2) >> ]

\* line 101
DestDirs(tuples) == {dirname(tuples[k][2]) : k \in 1..Len(tuples)}

\* line 102: list(set(dest_dirs)) comes in any order
ListsOfSet(set) ==
    {l \in [1..Cardinality(set) -> set] : Range(l) = set}

\* lines 92-102: the walk and the list of the destinations' directories
TemplatePlan ==
    /\ variant = "template"
    /\ pc = "plan"
    /\ \E order \in WalkOrders(tree) :
         LET tuples == TemplateFiles(args.templates_root, order)
         IN  /\ template_files' = tuples
             /\ dest_dirs' \in ListsOfSet(DestDirs(tuples))
             /\ pc' = IF tuples # <<>> THEN "stat" ELSE "done"
    /\ idx' = 1
    /\ UNCHANGED <<inputs, args, src_dest_tuples, destination_dirs, stats, result, ops,
                   remote, run_no, first_result>>

\* lines 19-21 when no directory is ever found
DirectoryNeverFound(st) == FALSE

\* lines 19-21
_does_remote_directory_exist(st) == "exists" \in st.keys /\ "isdir" \in st.keys

\* the position after the directory dest_dirs[idx] is dealt with
AfterDir ==
    IF idx < Len(dest_dirs) THEN pc' = "stat" /\ idx' = idx + 1
    ELSE pc' = "render" /\ idx' = 1

\* line 103: the remote stat of dest_dirs[idx]
TemplateStat ==
    /\ variant = "template"
    /\ pc = "stat"
    /\ LET req == Request("stat", dest_dirs[idx], <<>>, NoArg, NoArg, NoMode, {"path", "follow"})
       IN  \E st \in TaskOutputs(remote_kind, remote, req) :
             /\ stats' = st
             /\ ops' = Append(ops, Op(req, st))
             /\ IF _does_remote_directory_exist(st) THEN AfterDir
                ELSE pc' = "create" /\ UNCHANGED idx
    /\ UNCHANGED <<inputs, args, src_dest_tuples, destination_dirs, template_files, dest_dirs,
                   result, remote, run_no, first_result>>

\* lines 41-55: the module arguments of _create_directory
_create_directory(a, path) ==
    Request("create", path, <<>>,
            IF "owner" \in a.present THEN a.owner ELSE NoArg,
            IF "group" \in a.present THEN a.group ELSE NoArg,
            IF "new_dir_mode" \in a.present THEN a.new_dir_mode ELSE M0755,
            {"path", "state", "mode"} \cup (a.present \cap {"owner", "group"}))

\* lines 23-39: the task arguments of _run_template_action
_run_template_action(a, src, dest) ==
    Request("template", dest, src,
            IF "owner" \in a.present THEN a.owner ELSE NoArg,
            IF "group" \in a.present THEN a.group ELSE NoArg,
            IF "mode" \in a.present THEN a.mode ELSE NoMode,
            (a.present \ {"templates_root", "new_dir_mode"}) \cup {"src", "dest"})

\* lines 104-106: the directory is created when the stat did not find it
TemplateCreate ==
    /\ variant = "template"
    /\ pc = "create"
    /\ LET req == _create_directory(args, dest_dirs[idx])
       IN  \E out \in TaskOutputs(remote_kind, remote, req) :
             LET res == update_result_from_task(result, out)
             IN  /\ ops' = Append(ops, Op(req, out))
                 /\ remote' = RemoteAfter(remote_kind, remote, req)
                 /\ result' = res
                 /\ IF res.failed THEN pc' = "done" /\ UNCHANGED idx ELSE AfterDir
    /\ UNCHANGED <<inputs, args, src_dest_tuples, destination_dirs, template_files, dest_dirs,
                   stats, run_no, first_result>>

\* lines 108-115: one iteration of the loop over template_files
TemplateRender ==
    /\ variant = "template"
    /\ pc = "render"
    /\ LET req == _run_template_action(args, template_files[idx][1], template_files[idx][2])
       IN  \E out \in TaskOutputs(remote_kind, remote, req) :
             LET res == update_result_from_task(result, out)
             IN  /\ ops' = Append(ops, Op(req, out))
                 /\ remote' = RemoteAfter(remote_kind, remote, req)
                 /\ result' = res
                 /\ IF res.failed \/ idx = Len(template_files)
                    THEN pc' = "done" /\ UNCHANGED idx
                    ELSE pc' = "render" /\ idx' = idx + 1
    /\ UNCHANGED <<inputs, args, src_dest_tuples, destination_dirs, template_files, dest_dirs,
                   stats, run_no, first_result>>

\* the task is run again with the same arguments on what the first run left
\* on the remote host
Rerun ==
    /\ remote_kind = "fs"
    /\ pc = "done"
    /\ run_no = 1
    /\ ~result.failed
    /\ run_no' = 2
    /\ first_result' = result
    /\ args' = task_args
    /\ pc' = "start"
    /\ src_dest_tuples' = <<>>
    /\ destination_dirs' = <<>>
    /\ template_files' = <<>>
    /\ dest_dirs' = <<>>
    /\ idx' = 1
    /\ result' = EmptyResult
    /\ ops' = <<>>
    /\ UNCHANGED <<inputs, stats, remote>>

Next ==
    \/ CopyValidate
    \/ CopyPlan
    \/ CopyMkdir
    \/ CopyFile
    \/ TemplateValidate
    \/ TemplatePlan
    \/ TemplateStat
    \/ TemplateCreate
    \/ TemplateRender
    \/ Rerun

Spec == Init /\ [][Next]_vars

\* ------------------------------------------------------------------ claims
\* what the claims speak of, said without the operators of the code
IsProperAncestor(d1, d2) ==
    /\ Len(d1) < Len(d2)
    /\ SubSeq(d2, 1, Len(d1)) = d1
    /\ (d1 = ROOT \/ d2[Len(d1) + 1] = SLASH)
NonRootAncestors(p) == {SubSeq(p, 1, k - 1) : k \in {x \in 2..Len(p) : p[x] = SLASH}}
ReportedFailed(o) == "failed" \in o.out.keys /\ o.out.failed
ReportedChanged(o) == "changed" \in o.out.keys /\ o.out.changed
IsCopyRun == variant = "copy"
IsTemplateRun == variant = "template"
P_ab == <<"/", "a", "/", "b">>
P_abf == <<"/", "a", "/", "b", "/", "f">>

\* C1: in a run of r_copy every ensure-directory operation is issued before
\* any write-file operation, a directory's ensure-directory operation comes
\* after those of all its non-root ancestors, and when a file is written an
\* ensure-directory operation for each of its non-root ancestors has been
\* issued before and has reported no failure.
C1_DirsBeforeFiles ==
    IsCopyRun =>
      /\ \A i, j \in 1..Len(ops) :
           ops[i].op = "copy" /\ ops[j].op = "mkdir" => j < i
      /\ \A i, j \in 1..Len(ops) :
           /\ ops[i].op = "mkdir" /\ ops[j].op = "mkdir"
           /\ IsProperAncestor(ops[i].path, ops[j].path)
           => i < j
      /\ \A j \in 1..Len(ops) :
           \A d \in NonRootAncestors(ops[j].path) :
             \E i \in 1..(j - 1) :
               ops[i].op = "mkdir" /\ ops[i].path = d /\ ~ReportedFailed(ops[i])

\* C1 witness: a file two directories deep has been written
C1_Witness ==
    /\ IsCopyRun
    /\ \E j \in 1..Len(ops) : ops[j].op = "copy" /\ ops[j].path = P_abf

\* C2: the directory list run computes holds every non-root ancestor of every
\* destination file and nothing else, each once, never "/", and every
\* directory after all of its ancestors.
C2_ParentDirList ==
    IsCopyRun /\ pc \in {"mkdir", "copy", "done"} =>
      LET files == {src_dest_tuples[k][2] : k \in 1..Len(src_dest_tuples)}
          dirs == destination_dirs
      IN  /\ Range(dirs) = UNION {NonRootAncestors(f) : f \in files}
          /\ \A i, j \in 1..Len(dirs) : i # j => dirs[i] # dirs[j]
          /\ ROOT \notin Range(dirs)
          /\ \A i, j \in 1..Len(dirs) : IsProperAncestor(dirs[i], dirs[j]) => i < j

\* C2 witness: the list of a tree with a file at the top and a file two
\* directories deep
C2_Witness ==
    /\ IsCopyRun
    /\ pc = "mkdir"
    /\ tree = {F_f, F_abf}
    /\ destination_dirs = <<P_a, P_ab>>

\* the destination files and directories of the tree, from the tree itself
TreeDestFiles == {<<SLASH>> \o rel : rel \in tree}
TreeDestDirs == UNION {NonRootAncestors(f) : f \in TreeDestFiles}
\* the paths the caller lists under the override values of a table
ListedPaths(table) == UNION {Range(table[k].paths) : k \in 1..Len(table)}
AllListedPaths ==
    ListedPaths(task_args.mode_overrides) \cup ListedPaths(task_args.owner_overrides)
        \cup ListedPaths(task_args.group_overrides)
WithoutTrailingSlash(p) ==
    IF p # <<>> /\ p[Len(p)] = SLASH THEN SubSeq(p, 1, Len(p) - 1) ELSE p
\* the arguments pass every check that comes before the override paths
WellFormedMode(m) == m.isstr /\ Len(m.s) = 4 /\ \A k \in 1..4 : m.s[k] \in OctalDigits
CopyFieldFault ==
    \/ \E k \in {"owner", "group", "mode", "parent_dirs_mode", "src_root"} :
         k \notin task_args.present
    \/ \E k \in task_args.present :
         k \notin {"owner", "group", "mode", "parent_dirs_mode", "src_root",
                   "mode_overrides", "owner_overrides", "group_overrides"}
    \/ ~root_isdir
    \/ ~WellFormedMode(task_args.mode)
    \/ ~WellFormedMode(task_args.parent_dirs_mode)
    \/ \E k \in 1..Len(task_args.mode_overrides) :
         ~WellFormedMode(task_args.mode_overrides[k].key)
CopyFieldsValid == this_os \in {"linux", "darwin"} /\ ~CopyFieldFault

\* C3: when a path listed under any override value is neither a destination
\* file nor one of the parent directories, the run of r_copy issues no
\* ensure-directory and no write-file operation and returns failed = true.
C3_InvalidOverrideRejected ==
    /\ IsCopyRun
    /\ \E p \in AllListedPaths : WithoutTrailingSlash(p) \notin TreeDestFiles \cup TreeDestDirs
    => /\ ops = <<>>
       /\ pc = "done" => result.failed

\* the override value the caller's table gives a path: the first whose path
\* list holds it, trailing slashes aside
Lists(entry, path) == \E q \in Range(entry.paths) : WithoutTrailingSlash(q) = path
FirstListed(table, path, default) ==
    IF \E k \in 1..Len(table) : Lists(table[k], path)
    THEN table[CHOOSE k \in 1..Len(table) :
                 Lists(table[k], path) /\ \A h \in 1..(k - 1) : ~Lists(table[h], path)].key
    ELSE default

\* C4: every operation of r_copy is given, for owner, group and mode each,
\* the first override value of the caller's table that lists its path, and
\* the default when none does (mode for a file, parent_dirs_mode for a
\* directory).
C4_FirstOverrideWins ==
    IsCopyRun =>
      \A j \in 1..Len(ops) :
        /\ ops[j].owner = FirstListed(task_args.owner_overrides, ops[j].path, task_args.owner)
        /\ ops[j].group = FirstListed(task_args.group_overrides, ops[j].path, task_args.group)
        /\ ops[j].mode =
             FirstListed(task_args.mode_overrides, ops[j].path,
                         IF ops[j].op = "copy" THEN task_args.mode
                         ELSE task_args.parent_dirs_mode)

\* C5: with valid arguments, no overrides and a source root without files,
\* a run of r_copy computes an empty directory list, issues no operation and
\* returns failed = false and changed = false.
C5_EmptyTreeReturns ==
    /\ IsCopyRun
    /\ CopyFieldsValid
    /\ AllListedPaths = {}
    /\ tree = {}
    /\ pc \notin {"start", "plan"}
    => /\ pc = "done"
       /\ destination_dirs = <<>>
       /\ ops = <<>>
       /\ ~result.failed
       /\ ~result.changed

\* the message log and the diffs the operations issued so far reported
RECURSIVE MsgLog(_)
MsgLog(issued) ==
    IF issued = <<>> THEN <<>>
    ELSE MsgLog(SubSeq(issued, 1, Len(issued) - 1))
         \o (IF "msg" \in issued[Len(issued)].out.keys
             THEN <<NL>> \o issued[Len(issued)].out.msg ELSE <<>>)
HasDiff(o) == "diff" \in o.out.keys
RECURSIVE SumSeq(_)
SumSeq(ns) == IF ns = <<>> THEN 0 ELSE ns[1] + SumSeq(Tail(ns))
ChangedWithDiff(o) == HasDiff(o) /\ ReportedChanged(o)
\* the number of diff records of the operations that reported a change
ChangedDiffCount(issued) ==
    SumSeq([k \in 1..Len(issued) |->
              IF ChangedWithDiff(issued[k]) THEN Len(issued[k].out.diff.recs) ELSE 0])
LastOp == ops[Len(ops)]

\* C6: once a remote operation has reported failed = true no further
\* operation is issued; the run is over and its result has failed = true, the
\* changed flag and the message log of all operations issued, the failing one
\* included, and the diffs of the operations that reported a change.
C6_AbortOnFirstFailure ==
    /\ \A i \in 1..(Len(ops) - 1) : ~ReportedFailed(ops[i])
    /\ ops # <<>> /\ ReportedFailed(LastOp) =>
         /\ pc = "done"
         /\ result.failed
         /\ result.changed <=> \E i \in 1..Len(ops) : ReportedChanged(ops[i])
         /\ result.msg = MsgLog(ops)
         /\ Len(result.diff) >= ChangedDiffCount(ops)
         /\ ChangedWithDiff(LastOp) =>
              SubSeq(result.diff, Len(result.diff) - Len(LastOp.out.diff.recs) + 1,
                     Len(result.diff)) = LastOp.out.diff.recs

\* C6 witness: the third operation of a run failed after an earlier one
\* reported a change with a diff
C6_Witness ==
    /\ Len(ops) = 3
    /\ ReportedFailed(LastOp)
    /\ ChangedWithDiff(ops[1])
    /\ pc = "done"

\* C7: when the first run ended without failure, the run that repeats it on
\* the remote state it left returns changed = false and failed = false.
C7_SecondRunUnchanged ==
    run_no = 2 /\ pc = "done" => ~result.changed /\ ~result.failed

\* C8: a run of r_copy whose arguments lack a required field, hold an
\* unrecognized field, name a source root that is no directory or hold a
\* malformed mode (mode, parent_dirs_mode, a key of mode_overrides) issues no
\* remote operation and returns failed = true with a message.
C8_CopyValidationGate ==
    IsCopyRun /\ CopyFieldFault =>
      /\ ops = <<>>
      /\ pc \in {"start", "done"}
      /\ pc = "done" => result.failed /\ result.msg # <<>>

\* C8 witness: a run refused for the malformed second key of mode_overrides
C8_Witness ==
    /\ IsCopyRun
    /\ pc = "done"
    /\ this_os = "linux"
    /\ Len(task_args.mode_overrides) = 2
    /\ WellFormedMode(task_args.mode_overrides[1].key)
    /\ ~WellFormedMode(task_args.mode_overrides[2].key)
    /\ result.failed

UnequalDiff(o) ==
    HasDiff(o) /\ \E k \in 1..Len(o.out.diff.recs) :
                    o.out.diff.recs[k].before # o.out.diff.recs[k].after
WorthSaving(o) == HasDiff(o) /\ (ReportedChanged(o) \/ UnequalDiff(o))
WorthSavingCount(issued) ==
    SumSeq([k \in 1..Len(issued) |->
              IF WorthSaving(issued[k]) THEN Len(issued[k].out.diff.recs) ELSE 0])
\* C10: the diff list holds only the diffs of operations that reported
\* changed = true or a diff whose before and after differ; an operation that
\* reports no change and a diff, a record or a list of records, with equal
\* before and after adds nothing to it.
C10_OnlyRealDiffsSaved ==
    Len(result.diff) <= WorthSavingCount(ops)

\* the operations that create or change something at their path
Changes(o) == o.op \in {"mkdir", "create", "copy", "template"}

\* C11: no ensure-directory, create-directory, write-file or render-template
\* operation of either plugin is issued with the destination path "/".
C11_RootNeverTarget ==
    \A j \in 1..Len(ops) : Changes(ops[j]) => ops[j].path # <<"/">>

\* the mode values the caller gave to the run
GivenModes ==
    {task_args[k] : k \in task_args.present \cap {"mode", "parent_dirs_mode", "new_dir_mode"}}
        \cup {task_args.mode_overrides[k].key : k \in 1..Len(task_args.mode_overrides)}

\* C12: every mode handed to a remote operation of either plugin is a string
\* of exactly four characters, each one of 0-7, and a run that was given a
\* mode of another form issues no remote operation.
C12_ModesWellFormed ==
    /\ \A j \in 1..Len(ops) : Changes(ops[j]) => WellFormedMode(ops[j].mode)
    /\ (\E m \in GivenModes : ~WellFormedMode(m)) => ops = <<>>

\* the run has no fault that r_copy looks for before it looks at the modes
NoFaultBeforeModes ==
    /\ this_os \in {"linux", "darwin"}
    /\ {"owner", "group", "mode", "parent_dirs_mode", "src_root"} \subseteq task_args.present
    /\ task_args.present \subseteq
         {"owner", "group", "mode", "parent_dirs_mode", "src_root",
          "mode_overrides", "owner_overrides", "group_overrides"}
    /\ root_isdir
RefusedForMode ==
    /\ pc = "done"
    /\ ops = <<>>
    /\ result.failed
    /\ result.msg \in {<<"mode is not a string">>, <<"mode does not match regex">>}

\* C13: r_copy accepts a mode iff it is a string of exactly four characters,
\* each one of 0-7: a run that reaches the mode check is refused there iff
\* one of mode, parent_dirs_mode and the keys of mode_overrides is not of
\* that form ("755", "075a", "07555", a mode that is no string).
C13_ModeSyntaxCheck ==
    IsCopyRun /\ NoFaultBeforeModes /\ pc # "start" =>
      (RefusedForMode <=> \E m \in GivenModes : ~WellFormedMode(m))

\* C13 witness: a run was refused for the five-character mode "07555"
C13_Witness ==
    /\ IsCopyRun
    /\ NoFaultBeforeModes
    /\ task_args.mode = Str(<<"0", "7", "5", "5", "5">>)
    /\ WellFormedMode(task_args.parent_dirs_mode)
    /\ RefusedForMode

\* a destination without the suffix of a template file
WithoutJ2(p) ==
    IF Len(p) >= 3 /\ SubSeq(p, Len(p) - 2, Len(p)) = <<".", "j", "2">>
    THEN SubSeq(p, 1, Len(p) - 3)
    ELSE p
SourceOf(rel) == <<"/", "s", "/">> \o rel
ParentOf(p) == IF NonRootAncestors(p) = {} THEN <<"/">>
               ELSE CHOOSE d \in NonRootAncestors(p) : \A e \in NonRootAncestors(p) : Len(e) <= Len(d)
\* every template operation renders a file of the tree to "/" + its relative
\* path without ".j2", and a run that ends without failure has rendered each
\* file once
RenderedToStrippedPaths ==
    /\ \A j \in 1..Len(ops) :
         ops[j].op = "template" =>
           \E rel \in tree :
             ops[j].src = SourceOf(rel) /\ ops[j].path = WithoutJ2(<<"/">> \o rel)
    /\ \A i, j \in 1..Len(ops) :
         ops[i].op = "template" /\ ops[j].op = "template" /\ i # j => ops[i].src # ops[j].src
    /\ pc = "done" /\ ~result.failed /\ "templates_root" \in task_args.present =>
         \A rel \in tree : \E j \in 1..Len(ops) :
           ops[j].op = "template" /\ ops[j].src = SourceOf(rel)
\* a directory is looked at and created at most once, it is the parent of a
\* destination, and no stat or create comes after a render
DirsOnceBeforeRender ==
    /\ \A i, j \in 1..Len(ops) :
         ops[i].op = ops[j].op /\ ops[i].op \in {"stat", "create"} /\ i # j
           => ops[i].path # ops[j].path
    /\ \A j \in 1..Len(ops) :
         ops[j].op \in {"stat", "create"} =>
           \E rel \in tree : ops[j].path = ParentOf(WithoutJ2(<<"/">> \o rel))
    /\ \A i, j \in 1..Len(ops) :
         ops[i].op = "template" /\ ops[j].op \in {"stat", "create"} => j < i
StatSaysAbsent(o) == o.op = "stat" /\ "exists" \notin o.out.keys
StatSaysDirectory(o) == o.op = "stat" /\ {"exists", "isdir"} \subseteq o.out.keys

\* C14 as first stated: template_recursive renders every template to "/" +
\* its relative path without a trailing ".j2"; a create-directory operation
\* is issued only when the remote stat just before it reported the path
\* absent, at most once per parent directory, and every stat and
\* create-directory comes before the first render.
C14_CreateOnlyIfAbsent ==
    IsTemplateRun =>
      /\ RenderedToStrippedPaths
      /\ DirsOnceBeforeRender
      /\ \A j \in 1..Len(ops) :
           ops[j].op = "create" =>
             /\ j > 1
             /\ ops[j - 1].path = ops[j].path
             /\ StatSaysAbsent(ops[j - 1])

\* C14 as amended: the same, but a create-directory operation is issued
\* exactly when the remote stat just before it did not report an existing
\* directory, be the path absent or something that is no directory.
C14_CreateUnlessDirectory ==
    IsTemplateRun =>
      /\ RenderedToStrippedPaths
      /\ DirsOnceBeforeRender
      /\ \A j \in 1..Len(ops) :
           ops[j].op = "create" =>
             /\ j > 1
             /\ ops[j - 1].op = "stat"
             /\ ops[j - 1].path = ops[j].path
             /\ ~StatSaysDirectory(ops[j - 1])
      /\ \A j \in 1..(Len(ops) - 1) :
           ops[j].op = "stat" /\ ~StatSaysDirectory(ops[j]) => ops[j + 1].op = "create"

\* C14 witness: /a was reported as existing but no directory and was then
\* created, and f.j2 has been rendered to /f
C14_Witness ==
    /\ IsTemplateRun
    /\ \E j \in 1..(Len(ops) - 1) :
         /\ ops[j].op = "stat" /\ ops[j].path = P_a
         /\ ops[j].out.keys = {"exists"}
         /\ ops[j + 1].op = "create"
    /\ \E j \in 1..Len(ops) :
         /\ ops[j].op = "template"
         /\ ops[j].src = <<"/", "s", "/", "f", ".", "j", "2">>
         /\ ops[j].path = <<"/", "f">>

\* a run of r_copy is over (returned, or raised on the tree without files)
\* and neither a check nor an operation failed
CopyRunComplete == IsCopyRun /\ pc \in {"done", "raised"} /\ ~result.failed
MkdirCount == Cardinality({j \in 1..Len(ops) : ops[j].op = "mkdir"})

\* C15: a run of r_copy that passes its checks and in which no operation
\* fails has issued one ensure-directory for each non-root ancestor of a
\* destination, in ascending length of path, then one write-file for each
\* file below src_root with the destination "/" + its relative path, and
\* nothing else; without overrides each directory got owner, group and
\* parent_dirs_mode and each file owner, group and mode.
C15_CompleteCopyRun ==
    CopyRunComplete =>
      /\ Len(ops) = Cardinality(TreeDestDirs) + Cardinality(TreeDestFiles)
      /\ \A j \in 1..Len(ops) :
           ops[j].op = IF j <= Cardinality(TreeDestDirs) THEN "mkdir" ELSE "copy"
      /\ {ops[j].path : j \in 1..MkdirCount} = TreeDestDirs
      /\ \A i, j \in 1..MkdirCount : i < j => Len(ops[i].path) <= Len(ops[j].path)
      /\ \A rel \in tree :
           \E j \in (MkdirCount + 1)..Len(ops) :
             ops[j].src = SourceOf(rel) /\ ops[j].path = <<"/">> \o rel
      /\ AllListedPaths = {} =>
           \A j \in 1..Len(ops) :
             /\ ops[j].owner = task_args.owner
             /\ ops[j].group = task_args.group
             /\ ops[j].mode = IF ops[j].op = "mkdir" THEN task_args.parent_dirs_mode
                              ELSE task_args.mode

\* C15 witness: the complete run over a/b/f and f without overrides: /a,
\* /a/b, then the two files
C15_Witness ==
    /\ CopyRunComplete
    /\ tree = {F_f, F_abf}
    /\ AllListedPaths = {}
    /\ Len(ops) = 4
    /\ ops[1].path = P_a /\ ops[2].path = P_ab
    /\ \E j \in 3..4 : ops[j].path = P_abf /\ ops[j].mode = M0644

\* the checks are passed: an operation was issued, or one is about to be, or
\* the run returned without a failure
PastChecks ==
    \/ ops # <<>>
    \/ pc \in {"mkdir", "copy", "stat", "create", "render"}
    \/ pc = "done" /\ ~result.failed
\* the msg fields of the operations with a newline between one and the next
NewlineJoined(issued) == IF MsgLog(issued) = <<>> THEN <<>> ELSE Tail(MsgLog(issued))
IsPrefix(a, b) == Len(a) <= Len(b) /\ SubSeq(b, 1, Len(a)) = a
FlagsFollowOps ==
    /\ result.changed <=> \E j \in 1..Len(ops) : ReportedChanged(ops[j])
    /\ result.failed <=> \E j \in 1..Len(ops) : ReportedFailed(ops[j])
\* within one run the flags stay once set and msg and diff are only added to
ResultGrows ==
    run_no' = run_no =>
      /\ result.changed => result'.changed
      /\ result.failed => result'.failed
      /\ IsPrefix(result.msg, result'.msg)
      /\ IsPrefix(result.diff, result'.diff)

\* C16 as first stated: once the checks are passed, result.changed is true
\* iff an operation issued so far reported changed = true, result.failed iff
\* one reported failed = true, and result.msg is the msg fields of the
\* operations issued so far, in order, joined by newlines; changed and failed
\* never go back to false and msg and diff only grow.
C16_ResultIsJoinedLog ==
    /\ [](PastChecks => FlagsFollowOps /\ result.msg = NewlineJoined(ops))
    /\ [][ResultGrows]_vars

\* C16 as amended: the same, but result.msg is the msg fields of the
\* operations issued so far, in order, each with a newline before it, so
\* that a message log that is not empty starts with a newline.
C16_ResultIsAppendedLog ==
    /\ [](PastChecks => FlagsFollowOps /\ result.msg = MsgLog(ops))
    /\ [][ResultGrows]_vars

\* C16 witness: two operations of a template run carried a msg and the second
\* one reported the change
C16_Witness ==
    /\ IsTemplateRun
    /\ Len(ops) >= 2
    /\ "msg" \in ops[Len(ops) - 1].out.keys /\ ~ReportedChanged(ops[Len(ops) - 1])
    /\ "msg" \in LastOp.out.keys /\ ReportedChanged(LastOp)
    /\ result.changed
    /\ Len(result.msg) = 4

\* C17: no two operations of one run that create or change something have
\* the same path: different source files go to different destinations, and no
\* destination of a file is a directory the run creates or sets attributes on.
C17_DistinctTargets ==
    \A i, j \in 1..Len(ops) :
      Changes(ops[i]) /\ Changes(ops[j]) /\ i # j => ops[i].path # ops[j].path

\* C18: on an operating system that is neither linux nor darwin a run of
\* either plugin issues no remote operation and returns failed = true with
\* the message of the platform check, whatever else is wrong with its
\* arguments.
C18_PlatformCheckedFirst ==
    this_os \notin {"linux", "darwin"} =>
      /\ ops = <<>>
      /\ pc \in {"start", "done"}
      /\ pc = "done" => result.failed /\ result.msg = <<"unsupported OS", this_os>>

====
